---- MODULE Spec2Model ----
(***************************************************************************)
(* Model of kuka_utils.py: the ContactLogger leaf system, the joint index  *)
(* resolver extract_position_indices and the depth camera point cloud      *)
(* visualizer RgbdCameraMeshcatVisualizer.                                 *)
(*                                                                         *)
(* Numbers are integers: every coordinate, depth and matrix entry is drawn *)
(* from integer sets for which the arithmetic of the code is exact.        *)
(* Python's 0-based indices are kept as values; TLA+ sequences are 1-based *)
(* so element i of a Python list is element i+1 of the sequence.           *)
(***************************************************************************)
EXTENDS Integers, Sequences, FiniteSets, TLC

VARIABLES
    \* ContactLogger
    data,                   \* self._data
    sample_times,           \* self._sample_times, an (n,1) array
    num_contacts,           \* self._num_contacts
    contact_results,        \* value of input port 0 read by the latest publish
    publish_ticks,          \* number of _DoPublish calls made so far
    \* extract_position_indices
    rbt,                    \* the tree handed to the function
    controlled_joint_names, \* the requested names
    extract_status,         \* "pending", "returned" or "ValueError"
    controlled_config_inds, \* first returned list
    other_config_inds,      \* second returned list
    \* RgbdCameraMeshcatVisualizer
    viz_pc,                 \* "new" before __init__ ran, "ready" after
    camera,                 \* self.camera: intrinsic matrix and optical pose
    prefix,                 \* self.prefix
    vis_tree,               \* paths that hold content on the meshcat server
    vis_log,                \* commands sent to the meshcat server, in order
    viz_ticks,              \* number of _DoPublish calls made so far
    u_data,                 \* image read from input port 0 by the latest publish
    frame_pose,             \* world pose of the camera frame under the state
                            \* read from input port 1 by the latest publish
    optical_points,         \* points_in_camera_frame before the pose offset
    published,              \* the point cloud object at prefix/points
    replaced_point          \* height and color of one point of a replaced cloud

loggerVars == <<data, sample_times, num_contacts, contact_results,
                publish_ticks>>
extractVars == <<rbt, controlled_joint_names, extract_status,
                 controlled_config_inds, other_config_inds>>
vizVars == <<viz_pc, camera, prefix, vis_tree, vis_log, viz_ticks, u_data,
             frame_pose, optical_points, published, replaced_point>>
vars == <<loggerVars, extractVars, vizVars>>

(***************************************************************************)
(* Bounds                                                                  *)
(***************************************************************************)
MaxTicks == 3          \* publish ticks of the contact logger
MaxContacts == 2       \* contacts reported by one contact result
MaxBodies == 3         \* bodies of a tree
MaxNames == 2          \* requested joint names
MaxJointPositions == 2 \* positions owned by one joint
MaxPixels == 4         \* pixels of a depth image, first publish
MaxTickPixels == 2     \* pixels of a depth image, repeated publishes
MaxPublishes == 2      \* publish ticks of the visualizer

(***************************************************************************)
(* Generic helpers                                                         *)
(***************************************************************************)
\* All sequences over S of length 0..n
SeqsUpTo(S, n) == UNION {[1..k -> S] : k \in 0..n}

\* Python range(a, b) as a list
Range(a, b) == [k \in 1..(IF b > a THEN b - a ELSE 0) |-> a + k - 1]

\* Python "x in list"
InList(x, list) == \E k \in 1..Len(list) : list[k] = x

(***************************************************************************)
(* ContactLogger                                                           *)
(***************************************************************************)
ElementIds == {1, 2}
ContactTimes == {0, 1}
GeneralizedForces == {5}

\* One ContactInfo of the plant: the two element ids and the resultant
\* force (application point and force vector).
ContactInfos ==
    [element_id_1 : ElementIds, element_id_2 : {2},
     application_point : {<<0, 0, 1>>}, force : {<<0, 0, 9>>}]

\* The ContactResults values the plant can put on the port
ContactResultsValues ==
    [infos : SeqsUpTo(ContactInfos, MaxContacts),
     generalized_contact_force : GeneralizedForces]

NoContactResults == [infos |-> <<>>, generalized_contact_force |-> 0]

get_num_contacts(cr) == Len(cr.infos)

\* The list built by the loop of _DoPublish: one 5-element list per contact
ThisContactInfo(cr) ==
    [contact_i \in 1..get_num_contacts(cr) |->
        <<cr.infos[contact_i].element_id_1,
          cr.infos[contact_i].element_id_2,
          cr.infos[contact_i].application_point,
          cr.infos[contact_i].force,
          cr.generalized_contact_force>>]

\* self._data.append(this_contact_info), with a slip that puts the new
\* entry in front
AppendData_Prepend(d, info) == <<info>> \o d

\* self._data.append(this_contact_info), with a slip that skips a tick
\* without contacts
AppendData_SkipEmpty(d, info) == IF info = <<>> THEN d ELSE Append(d, info)

\* self._data.append(this_contact_info)
AppendData(d, info) == Append(d, info)

\* np.vstack([self._sample_times, [context.get_time()]])
VStackTime(times, time) == Append(times, <<time>>)

\* np.hstack((self._num_contacts, contact_results.get_num_contacts()))
HStackNum(nums, n) == Append(nums, n)

ContactLoggerInit ==
    /\ publish_ticks = 0
    /\ data = <<>>
    /\ num_contacts = <<>>
    /\ sample_times = <<>>
    /\ contact_results = NoContactResults

ContactLoggerDoPublish ==
    /\ publish_ticks < MaxTicks
    /\ \E cr \in ContactResultsValues, time \in ContactTimes :
        /\ contact_results' = cr
        /\ sample_times' = VStackTime(sample_times, time)
        /\ num_contacts' = HStackNum(num_contacts, get_num_contacts(cr))
        /\ data' = AppendData(data, ThisContactInfo(cr))
    /\ publish_ticks' = publish_ticks + 1
    /\ UNCHANGED <<extractVars, vizVars>>

(***************************************************************************)
(* extract_position_indices                                                *)
(***************************************************************************)
JointNames == {"a", "b", "c"}

\* A body as the function sees it
Body(hasJoint, name, npos, start) ==
    [has_joint |-> hasJoint, joint_name |-> name,
     joint_num_positions |-> npos, position_start_index |-> start]

\* What a body contributes to a tree before the tree numbers its positions
BodyShapes ==
    {[has_joint |-> FALSE, joint_name |-> "", joint_num_positions |-> 0]}
    \cup [has_joint : {TRUE}, joint_name : JointNames,
          joint_num_positions : 0..MaxJointPositions]

RECURSIVE NumPositionsBefore(_, _)
NumPositionsBefore(shapes, i) ==
    IF i <= 1 THEN 0
    ELSE NumPositionsBefore(shapes, i - 1) + shapes[i - 1].joint_num_positions

\* The tree gives every body a contiguous range of the position vector, in
\* body order.
CompileTree(shapes) ==
    [i \in 1..Len(shapes) |->
        Body(shapes[i].has_joint, shapes[i].joint_name,
             shapes[i].joint_num_positions, NumPositionsBefore(shapes, i))]

Trees == {CompileTree(s) : s \in SeqsUpTo(BodyShapes, MaxBodies)}

get_num_bodies(tree) == Len(tree)

\* The range of position indices of one body, with an off-by-one end
BodyRange_ShortByOne(body) ==
    Range(body.position_start_index,
          body.position_start_index + body.joint_num_positions - 1)

\* The range of position indices of one body
BodyRange(body) ==
    Range(body.position_start_index,
          body.position_start_index + body.joint_num_positions)

\* The loop over the bodies: the state after bodies 0..n-1 were visited, as
\* the pair <<controlled_config_inds, other_config_inds>>.
RECURSIVE ExtractLoop(_, _, _)
ExtractLoop(tree, names, n) ==
    IF n = 0 THEN <<(<<>>), (<<>>)>>
    ELSE LET acc == ExtractLoop(tree, names, n - 1)
             body == tree[n]
         IN IF body.has_joint
            THEN IF InList(body.joint_name, names)
                 THEN <<acc[1] \o BodyRange(body), acc[2]>>
                 ELSE <<acc[1], acc[2] \o BodyRange(body)>>
            ELSE acc

\* The final check of the function: TRUE when it raises ValueError
RaisesValueError(names, controlled) == Len(names) # Len(controlled)

ExtractInit ==
    /\ rbt \in Trees
    /\ controlled_joint_names \in SeqsUpTo(JointNames, MaxNames)
    /\ extract_status = "pending"
    /\ controlled_config_inds = <<>>
    /\ other_config_inds = <<>>

ExtractIdle ==
    /\ rbt = <<>>
    /\ controlled_joint_names = <<>>
    /\ extract_status = "pending"
    /\ controlled_config_inds = <<>>
    /\ other_config_inds = <<>>

extract_position_indices ==
    /\ extract_status = "pending"
    /\ LET res == ExtractLoop(rbt, controlled_joint_names, get_num_bodies(rbt))
       IN IF RaisesValueError(controlled_joint_names, res[1])
          THEN /\ extract_status' = "ValueError"
               /\ UNCHANGED <<controlled_config_inds, other_config_inds>>
          ELSE /\ extract_status' = "returned"
               /\ controlled_config_inds' = res[1]
               /\ other_config_inds' = res[2]
    /\ UNCHANGED <<rbt, controlled_joint_names>>
    /\ UNCHANGED <<loggerVars, vizVars>>

(***************************************************************************)
(* Arrays: a vector is a sequence, a matrix is a sequence of rows          *)
(***************************************************************************)
NumRows(M) == Len(M)
NumCols(M) == IF Len(M) = 0 THEN 0 ELSE Len(M[1])

\* np.arange(n)
Arange(n) == Range(0, n)

\* np.ones(n)
Ones(n) == [k \in 1..n |-> 1]

\* np.meshgrid(xs, ys) with the default "xy" indexing: two arrays of shape
\* (len(ys), len(xs)); the first repeats xs along every row, the second
\* repeats ys along every column.
Meshgrid(xs, ys) ==
    <<[i \in 1..Len(ys) |-> [j \in 1..Len(xs) |-> xs[j]]],
      [i \in 1..Len(ys) |-> [j \in 1..Len(xs) |-> ys[i]]]>>

\* ndarray.flatten(): row-major order
Flatten(M) ==
    [k \in 1..(NumRows(M) * NumCols(M)) |->
        M[((k - 1) \div NumCols(M)) + 1][((k - 1) % NumCols(M)) + 1]]

\* The same elements in column-major order
FlattenColumnMajor(M) ==
    [k \in 1..(NumRows(M) * NumCols(M)) |->
        M[((k - 1) % NumRows(M)) + 1][((k - 1) \div NumRows(M)) + 1]]

\* np.vstack of three vectors
VStack3(a, b, c) == <<a, b, c>>

\* ndarray.T of an array of shape (len(M), ncols)
Transpose(M, ncols) ==
    [c \in 1..ncols |-> [r \in 1..NumRows(M) |-> M[r][c]]]

RECURSIVE SumTo(_, _)
SumTo(f, n) == IF n = 0 THEN 0 ELSE SumTo(f, n - 1) + f[n]

\* A.dot(B) for two matrices
Dot(A, B) ==
    [r \in 1..NumRows(A) |->
        [c \in 1..NumCols(B) |->
            SumTo([k \in 1..NumCols(A) |-> A[r][k] * B[k][c]], NumCols(A))]]

\* M * v: the vector is broadcast over the rows of the matrix
BroadcastMul(M, v) ==
    [r \in 1..NumRows(M) |-> [c \in 1..Len(v) |-> M[r][c] * v[c]]]

\* A += B
MatAdd(A, B) ==
    [r \in 1..NumRows(A) |-> [c \in 1..NumCols(A) |-> A[r][c] + B[r][c]]]

\* np.tile(v, [n, 1]): n rows, each a copy of v
Tile(v, n) == [r \in 1..n |-> v]

\* M[0:n, :]
TopRows(M, n) == SubSeq(M, 1, n)

\* Exact quotient, also for a negative divisor
ExactDiv(a, d) == IF d < 0 THEN (0 - a) \div (0 - d) ELSE a \div d

Det3(M) ==
      M[1][1] * (M[2][2] * M[3][3] - M[2][3] * M[3][2])
    - M[1][2] * (M[2][1] * M[3][3] - M[2][3] * M[3][1])
    + M[1][3] * (M[2][1] * M[3][2] - M[2][2] * M[3][1])

\* The cofactor of M at row r and column c
Cofactor(M, r, c) ==
    LET r1 == IF r = 1 THEN 2 ELSE 1
        r2 == IF r = 3 THEN 2 ELSE 3
        c1 == IF c = 1 THEN 2 ELSE 1
        c2 == IF c = 3 THEN 2 ELSE 3
        minor == M[r1][c1] * M[r2][c2] - M[r1][c2] * M[r2][c1]
    IN IF (r + c) % 2 = 0 THEN minor ELSE 0 - minor

\* np.linalg.inv of a 3x3 matrix: adjugate over determinant
Inv3(M) ==
    [r \in 1..3 |-> [c \in 1..3 |-> ExactDiv(Cofactor(M, c, r), Det3(M))]]

(***************************************************************************)
(* RgbdCameraMeshcatVisualizer                                             *)
(***************************************************************************)
min_height == 0
max_height == 2
PointSize == 5     \* size=0.005, in thousandths
LutN == 256        \* entries of the lookup table of the jet color map

Identity3 == <<<<1, 0, 0>>, <<0, 1, 0>>, <<0, 0, 1>>>>
Identity4 == <<<<1, 0, 0, 0>>, <<0, 1, 0, 0>>, <<0, 0, 1, 0>>, <<0, 0, 0, 1>>>>

\* Intrinsic matrices with an integer inverse: the identity, one with a
\* principal point offset and skew, one with a flipped image axis
IntrinsicMatrices ==
    {Identity3,
     <<<<1, 1, 1>>, <<0, 1, 2>>, <<0, 0, 1>>>>,
     <<<<1, 0, 0>>, <<0, -1, 1>>, <<0, 0, 1>>>>}

\* Optical-to-body transforms: the identity, and the optical frame of a
\* camera that looks along the body's x axis, offset sideways
OpticalPoses ==
    {Identity4,
     <<<<0, 0, 1, 0>>, <<-1, 0, 0, 1>>, <<0, -1, 0, 0>>, <<0, 0, 0, 1>>>>}

\* World poses of the camera frame that forward kinematics can give
FramePoses ==
    {Identity4,
     <<<<1, 0, 0, 0>>, <<0, 0, -1, 0>>, <<0, 1, 0, 1>>, <<0, 0, 0, 1>>>>}

Cameras == [intrinsic_matrix : IntrinsicMatrices, optical_pose : OpticalPoses]

DepthValues == {-1, 0, 2}

\* Image data of shape (w, h, 1)
ImagesUpTo(n) ==
    UNION {[1..w -> [1..h -> [1..1 -> DepthValues]]] :
             <<w, h>> \in {s \in (1..n) \X (1..n) : s[1] * s[2] <= n}}

Images == ImagesUpTo(MaxPixels)
TickImages == ImagesUpTo(MaxTickPixels)

Prefixes == {"RBCameraViz"}

NoImage == <<>>
NoObject == [position |-> <<>>, color |-> <<>>, size |-> 0]
NoPoint == <<>>

\* Content the meshcat server can hold before the visualizer connects
PriorTrees ==
    {{<<"other">>},
     {<<"other">>, <<"RBCameraViz">>, <<"RBCameraViz", "points">>,
      <<"RBCameraViz", "stale">>}}

IsPrefixOf(p, q) == Len(p) <= Len(q) /\ SubSeq(q, 1, Len(p)) = p

DeleteCmd(path) == [cmd |-> "delete", path |-> path]
SetObjectCmd(path) == [cmd |-> "set_object", path |-> path]

\* What the meshcat server does with one command
ApplyCommand(tree, c) ==
    IF c.cmd = "delete"
    THEN {q \in tree : ~IsPrefixOf(c.path, q)}
    ELSE tree \cup {c.path}

RECURSIVE ApplyCommands(_, _)
ApplyCommands(tree, cmds) ==
    IF cmds = <<>> THEN tree
    ELSE ApplyCommands(ApplyCommand(tree, Head(cmds)), Tail(cmds))

\* The commands __init__ sends: self.vis[prefix].delete()
InitCommands(pfx) == <<DeleteCmd(<<pfx>>)>>

\* The commands of a publish that also clears the prefix first
PublishCommands_DeleteFirst(pfx) ==
    <<DeleteCmd(<<pfx>>), SetObjectCmd(<<pfx, "points">>)>>

\* The commands _DoPublish sends: self.vis[self.prefix]["points"].set_object
PublishCommands(pfx) == <<SetObjectCmd(<<pfx, "points">>)>>

\* u_data.data[:, :, 0]
DepthImage(imgdata) ==
    [i \in 1..Len(imgdata) |-> [j \in 1..Len(imgdata[i]) |-> imgdata[i][j][1]]]

\* depth_image.flatten() that leaves out the pixels without a valid depth
RECURSIVE DropInvalid(_)
DropInvalid(v) ==
    IF v = <<>> THEN <<>>
    ELSE IF Head(v) <= 0 THEN DropInvalid(Tail(v))
         ELSE <<Head(v)>> \o DropInvalid(Tail(v))

DepthFlat_DropInvalid(depth_image) == DropInvalid(Flatten(depth_image))

\* depth_image.flatten() in the wrong memory order
DepthFlat_ColumnMajor(depth_image) == FlattenColumnMajor(depth_image)

\* depth_image.flatten()
DepthFlat(depth_image) == Flatten(depth_image)

\* Lines 245-253: the points in the optical frame
PointsInOpticalFrame(K, imgdata) ==
    LET w == Len(imgdata)
        h == Len(imgdata[1])
        depth_image == DepthImage(imgdata)
        Kinv == Inv3(K)
        UV == Meshgrid(Arange(h), Arange(w))
        rays == VStack3(Flatten(UV[1]), Flatten(UV[2]), Ones(w * h))
    IN BroadcastMul(Dot(Kinv, rays), DepthFlat(depth_image))

\* pose_mat[0:3, 0:3]
PoseRotation(pose_mat) ==
    [r \in 1..3 |-> [c \in 1..3 |-> pose_mat[r][c]]]

\* pose_mat[0:3, 2]: the wrong column
PoseTranslation_WrongColumn(pose_mat) == [r \in 1..3 |-> pose_mat[r][3]]

\* pose_mat[0:3, 3]
PoseTranslation(pose_mat) == [r \in 1..3 |-> pose_mat[r][4]]

\* Lines 257-259: the optical-to-body offset of the depth camera
PointsInCameraFrame(pose_mat, points, n) ==
    MatAdd(Dot(PoseRotation(pose_mat), points),
           Transpose(Tile(PoseTranslation(pose_mat), n), 3))

\* rbt.transformPoints(kinsol, points, frame, 0): the points of the camera
\* frame expressed in the world frame
transformPoints(T, points) ==
    [r \in 1..3 |->
        [c \in 1..NumCols(points) |->
            T[r][1] * points[1][c] + T[r][2] * points[2][c]
                + T[r][3] * points[3][c] + T[r][4]]]

\* points_in_world_frame[1, :]: the wrong row
HeightRow_WrongRow(points) == points[2]

\* points_in_world_frame[2, :]
HeightRow(points) == points[3]

\* (height - min_height)/(max_height - min_height), as a multiple of 1/LutN
NormalizedHeights(heights) ==
    [k \in 1..Len(heights) |->
        ((heights[k] - min_height) * LutN) \div (max_height - min_height)]

Abs(x) == IF x < 0 THEN 0 - x ELSE x
Clamp255(x) == IF x < 0 THEN 0 ELSE IF x > 255 THEN 255 ELSE x

\* Entry i of the lookup table of jet, as RGBA in 0..255
JetLut(i) ==
    <<Clamp255(384 - Abs(4 * i - 768)),
      Clamp255(384 - Abs(4 * i - 512)),
      Clamp255(384 - Abs(4 * i - 256)),
      255>>

\* cm.jet(x) for an array of floats: values below 0 take the first entry of
\* the table, values of 1 and above the last; the result has shape (n, 4)
Jet(xs) ==
    [k \in 1..Len(xs) |->
        JetLut(IF xs[k] < 0 THEN 0
               ELSE IF xs[k] >= LutN THEN LutN - 1 ELSE xs[k])]

\* Lines 268-273
Colors(points_in_world_frame) ==
    TopRows(Transpose(Jet(NormalizedHeights(HeightRow(points_in_world_frame))), 4),
            3)

\* g.PointCloud(position, color, size)
PointCloud(position, color, size) ==
    [position |-> position, color |-> color, size |-> size]

\* Height and color of point k of a cloud
PointSample(cloud, k) ==
    <<cloud.position[3][k],
      <<cloud.color[1][k], cloud.color[2][k], cloud.color[3][k]>>>>

\* The points of a cloud that is about to be replaced
ReplacedSamples(cloud) ==
    {PointSample(cloud, k) : k \in 1..NumCols(cloud.position)}

VizNew ==
    /\ viz_pc = "new"
    /\ camera \in Cameras
    /\ prefix \in Prefixes
    /\ vis_tree \in PriorTrees
    /\ vis_log = <<>>
    /\ viz_ticks = 0
    /\ u_data = NoImage
    /\ frame_pose = Identity4
    /\ optical_points = <<>>
    /\ published = NoObject
    /\ replaced_point = NoPoint

VizIdle ==
    /\ viz_pc = "new"
    /\ camera = [intrinsic_matrix |-> Identity3, optical_pose |-> Identity4]
    /\ prefix = "RBCameraViz"
    /\ vis_tree = {}
    /\ vis_log = <<>>
    /\ viz_ticks = 0
    /\ u_data = NoImage
    /\ frame_pose = Identity4
    /\ optical_points = <<>>
    /\ published = NoObject
    /\ replaced_point = NoPoint

\* RgbdCameraMeshcatVisualizer.__init__
VizConstruct ==
    /\ viz_pc = "new"
    /\ viz_pc' = "ready"
    /\ vis_log' = vis_log \o InitCommands(prefix)
    /\ vis_tree' = ApplyCommands(vis_tree, InitCommands(prefix))
    /\ UNCHANGED <<camera, prefix, viz_ticks, u_data, frame_pose,
                   optical_points, published, replaced_point>>
    /\ UNCHANGED <<loggerVars, extractVars>>

\* The body of RgbdCameraMeshcatVisualizer._DoPublish, for an image of the
\* given set on port 0
DoPublish(images) ==
    /\ viz_pc = "ready"
    /\ viz_ticks' = viz_ticks + 1
    /\ \E img \in images, T \in FramePoses :
        LET w == Len(img)
            h == Len(img[1])
            optical == PointsInOpticalFrame(camera.intrinsic_matrix, img)
            points_in_camera_frame ==
                PointsInCameraFrame(camera.optical_pose, optical, w * h)
            points_in_world_frame == transformPoints(T, points_in_camera_frame)
            colors == Colors(points_in_world_frame)
        IN /\ u_data' = img
           /\ frame_pose' = T
           /\ optical_points' = optical
           /\ published' = PointCloud(points_in_world_frame, colors, PointSize)
    /\ vis_log' = vis_log \o PublishCommands(prefix)
    /\ vis_tree' = ApplyCommands(vis_tree, PublishCommands(prefix))
    /\ replaced_point' \in {replaced_point} \cup ReplacedSamples(published)
    /\ UNCHANGED <<viz_pc, camera, prefix>>
    /\ UNCHANGED <<loggerVars, extractVars>>

\* The first publish after construction
VizFirstPublish == viz_ticks = 0 /\ DoPublish(Images)

\* Any publish
VizDoPublish == viz_ticks < MaxPublishes /\ DoPublish(TickImages)

(***************************************************************************)
(* Properties of the contact logger                                        *)
(***************************************************************************)
\* C1: after N publish ticks the number of sample times and the number of
\* per-tick entries of data() both equal N, and a tick whose contact result
\* held zero contacts has the empty list as its entry.
C1_LogAligned ==
    /\ Len(sample_times) = publish_ticks
    /\ Len(data) = publish_ticks
    /\ \A k \in 1..Len(num_contacts) :
          num_contacts[k] = 0 => (k \in 1..Len(data) /\ data[k] = <<>>)
    /\ (publish_ticks > 0 /\ get_num_contacts(contact_results) = 0)
          => data[Len(data)] = <<>>

\* Two ticks were published, the first with contacts, the second without.
C1_Witness ==
    /\ publish_ticks = 2
    /\ num_contacts = <<1, 0>>
    /\ data[2] = <<>>

\* C9: every publish adds exactly one sample time and one per-tick list at
\* the end, keeps all earlier entries, and the new list holds one tuple per
\* contact of the contact result of that tick, in the contact result's order.
C9_AppendOnly ==
    [][publish_ticks' # publish_ticks =>
        /\ Len(sample_times') = Len(sample_times) + 1
        /\ Len(data') = Len(data) + 1
        /\ SubSeq(sample_times', 1, Len(sample_times)) = sample_times
        /\ SubSeq(data', 1, Len(data)) = data
        /\ LET new == data'[Len(data')]
               cr == contact_results'
           IN /\ Len(new) = Len(cr.infos)
              /\ \A i \in 1..Len(new) :
                    /\ new[i][1] = cr.infos[i].element_id_1
                    /\ new[i][2] = cr.infos[i].element_id_2
                    /\ new[i][3] = cr.infos[i].application_point
                    /\ new[i][4] = cr.infos[i].force]_vars

\* Three ticks: two contacts with different ids, then none, then one.
C9_Witness ==
    /\ publish_ticks = 3
    /\ Len(data) = 3
    /\ Len(data[1]) = 2 /\ data[1][1][1] = 1 /\ data[1][2][1] = 2
    /\ data[2] = <<>>
    /\ Len(data[3]) = 1

(***************************************************************************)
(* Properties of extract_position_indices                                  *)
(***************************************************************************)
\* The joints of a tree, as indices of their bodies
JointBodies(tree) == {b \in 1..Len(tree) : tree[b].has_joint}

\* The position indices owned by body b
OwnedBy(tree, b) ==
    {p \in 0..(NumPositionsBefore(tree, Len(tree) + 1)) :
        /\ tree[b].has_joint
        /\ tree[b].position_start_index <= p
        /\ p < tree[b].position_start_index + tree[b].joint_num_positions}

NameFound(tree, name) == \E b \in JointBodies(tree) : tree[b].joint_name = name

AllNamesFound(tree, names) == \A k \in 1..Len(names) : NameFound(tree, names[k])

ListSet(list) == {list[k] : k \in 1..Len(list)}

\* The tree of the example: joint "a" owns [0,1], joint "b" owns [2]
ExampleTree == <<Body(TRUE, "a", 2, 0), Body(TRUE, "b", 1, 2)>>

\* C2: a request whose names all match joints of the tree succeeds and
\* returns every position index of each matched joint; for the example tree
\* and the request ["a"] the result is [0,1] and [2].
C2_AllFoundSucceeds ==
    (extract_status # "pending"
        /\ AllNamesFound(rbt, controlled_joint_names))
    => /\ extract_status = "returned"
       /\ \A b \in JointBodies(rbt) :
             InList(rbt[b].joint_name, controlled_joint_names)
                => OwnedBy(rbt, b) \subseteq ListSet(controlled_config_inds)
       /\ (rbt = ExampleTree /\ controlled_joint_names = <<"a">>)
             => /\ controlled_config_inds = <<0, 1>>
                /\ other_config_inds = <<2>>

\* C3: the function fails with ValueError whenever a requested name matches
\* no joint of the tree.
C3_MissingNameFails ==
    (extract_status # "pending"
        /\ ~AllNamesFound(rbt, controlled_joint_names))
    => extract_status = "ValueError"

\* The body that owns position index p
OwnerBody(tree, p) == CHOOSE b \in JointBodies(tree) : p \in OwnedBy(tree, b)

\* The list follows body order, ascending within one body
NativeOrder(tree, list) ==
    \A p, q \in 1..Len(list) :
        p < q => \/ OwnerBody(tree, list[p]) < OwnerBody(tree, list[q])
                 \/ /\ OwnerBody(tree, list[p]) = OwnerBody(tree, list[q])
                    /\ list[p] < list[q]

\* C4: when the function returns, the two lists are disjoint, hold every
\* position index of a jointed body exactly once, an index is controlled
\* exactly when its owning joint's name was requested, and each list is in
\* the tree's native order.
C4_Partition ==
    extract_status = "returned" =>
        LET owned == UNION {OwnedBy(rbt, b) : b \in JointBodies(rbt)}
        IN /\ ListSet(controlled_config_inds) \cap ListSet(other_config_inds) = {}
           /\ ListSet(controlled_config_inds) \cup ListSet(other_config_inds) = owned
           /\ Len(controlled_config_inds) + Len(other_config_inds)
                 = Cardinality(owned)
           /\ \A p \in owned :
                 p \in ListSet(controlled_config_inds)
                    <=> InList(rbt[OwnerBody(rbt, p)].joint_name,
                               controlled_joint_names)
           /\ NativeOrder(rbt, controlled_config_inds)
           /\ NativeOrder(rbt, other_config_inds)

\* A returned call whose controlled joints enclose a two-position joint that
\* was not requested.
C4_Witness ==
    /\ extract_status = "returned"
    /\ controlled_config_inds = <<0, 3>>
    /\ other_config_inds = <<1, 2>>

(***************************************************************************)
(* Properties of the point cloud projector                                 *)
(***************************************************************************)
Column(M, k) == <<M[1][k], M[2][k], M[3][k]>>

\* A 3x3 matrix times a 3-vector
Apply3(M, v) ==
    [r \in 1..3 |-> M[r][1] * v[1] + M[r][2] * v[2] + M[r][3] * v[3]]

ImageW == Len(u_data)
ImageH == Len(u_data[1])

\* C5: one publish emits exactly w*h points and w*h colors for an image of
\* shape w x h, whatever the depth values are.
C5_PointCount ==
    viz_ticks > 0 =>
        /\ NumRows(published.position) = 3
        /\ NumRows(published.color) = 3
        /\ \A r \in 1..3 :
              /\ Len(published.position[r]) = ImageW * ImageH
              /\ Len(published.color[r]) = ImageW * ImageH

\* A 2x2 image with a zero, a negative and a positive depth was published.
C5_Witness ==
    /\ viz_ticks > 0
    /\ ImageW = 2 /\ ImageH = 2
    /\ u_data[1][1][1] = 0 /\ u_data[1][2][1] = -1 /\ u_data[2][1][1] = 2
    /\ Len(published.position[1]) = 4

\* C6: the k-th optical-frame point is the inverse-intrinsic image of the
\* homogeneous pixel vector [u, v, 1] of the k-th pixel in raster order,
\* scaled by the depth of that pixel: the intrinsic matrix maps the point
\* back to depth * [u, v, 1].  With the identity intrinsics a depth of 2 at
\* pixel (0,0) gives (0,0,2), and a depth of 0 gives the zero vector.
C6_RayTimesOwnDepth ==
    viz_ticks > 0 =>
        /\ NumRows(optical_points) = 3
        /\ \A r \in 1..3 : Len(optical_points[r]) = ImageW * ImageH
        /\ \A k \in 1..(ImageW * ImageH) :
              LET v == (k - 1) \div ImageH
                  u == (k - 1) % ImageH
                  depth == u_data[v + 1][u + 1][1]
                  point == Column(optical_points, k)
              IN /\ Apply3(camera.intrinsic_matrix, point)
                       = <<depth * u, depth * v, depth>>
                 /\ depth = 0 => point = <<0, 0, 0>>
        /\ (camera.intrinsic_matrix = Identity3 /\ u_data[1][1][1] = 2)
              => Column(optical_points, 1) = <<0, 0, 2>>

\* A 2x2 image whose off-diagonal pixels have different depths, seen through
\* intrinsics other than the identity.
C6_Witness ==
    /\ viz_ticks > 0
    /\ ImageW = 2 /\ ImageH = 2
    /\ camera.intrinsic_matrix # Identity3
    /\ u_data[1][2][1] = 2 /\ u_data[2][1][1] = -1
    /\ Column(optical_points, 2) # Column(optical_points, 3)

\* C7: with the identity optical-to-body transform and the identity camera
\* frame pose, the world-frame points equal the optical-frame points, in the
\* same order.
C7_IdentityPoses ==
    (viz_ticks > 0 /\ camera.optical_pose = Identity4 /\ frame_pose = Identity4)
        => published.position = optical_points

\* Identity poses and a cloud of three points that are not all the origin.
C7_Witness ==
    /\ viz_ticks > 0
    /\ camera.optical_pose = Identity4 /\ frame_pose = Identity4
    /\ NumCols(optical_points) = 3
    /\ Column(optical_points, 3) # <<0, 0, 0>>
    /\ Column(optical_points, 2) # Column(optical_points, 3)

\* C8: the color of a point is a function of its world-frame height alone,
\* (height - 0)/(2 - 0) looked up in the color map without clamping: points
\* of equal height have the same color within one publish and across
\* publishes, and the heights 0, 1 and 2 take the first, the middle and the
\* last entry of the table.
C8_ColorByHeight ==
    viz_ticks > 0 =>
        LET n == NumCols(published.position)
            height(k) == published.position[3][k]
            color(k) == Column(published.color, k)
        IN /\ \A k1, k2 \in 1..n :
                 height(k1) = height(k2) => color(k1) = color(k2)
           /\ replaced_point # NoPoint =>
                 \A k \in 1..n :
                    height(k) = replaced_point[1] => color(k) = replaced_point[2]
           /\ \A k \in 1..n :
                 /\ height(k) = 0 => color(k) = SubSeq(JetLut(0), 1, 3)
                 /\ height(k) = 1 => color(k) = SubSeq(JetLut(LutN \div 2), 1, 3)
                 /\ height(k) = 2 => color(k) = SubSeq(JetLut(LutN - 1), 1, 3)

\* Two points of one cloud share their height but not their position, and a
\* point of an earlier cloud has the height of a point of the current one
\* while the two clouds differ.
C8_Witness ==
    /\ viz_ticks = 2
    /\ NumCols(published.position) = 2
    /\ published.position[3][1] = published.position[3][2]
    /\ Column(published.position, 1) # Column(published.position, 2)
    /\ replaced_point # NoPoint
    /\ replaced_point[1] = published.position[3][1]
    /\ published.position[3][1] = 2

PathsUnder(tree, pfx) == {q \in tree : IsPrefixOf(<<pfx>>, q)}

\* C10: the content under the prefix is deleted exactly once, at
\* construction and before the first point cloud; afterwards every publish
\* sends exactly one point cloud to prefix/points and never deletes again.
C10_DeleteOnceThenSet ==
    /\ [](viz_pc = "new" => vis_log = <<>>)
    /\ [](viz_pc = "ready" =>
            /\ Len(vis_log) = viz_ticks + 1
            /\ vis_log[1] = DeleteCmd(<<prefix>>)
            /\ \A k \in 2..Len(vis_log) :
                  vis_log[k] = SetObjectCmd(<<prefix, "points">>)
            /\ PathsUnder(vis_tree, prefix)
                  = IF viz_ticks = 0 THEN {} ELSE {<<prefix, "points">>})
    /\ [][viz_ticks' # viz_ticks =>
            vis_log' = Append(vis_log, SetObjectCmd(<<prefix, "points">>))]_vars

\* Stale content was on the server, and two clouds were published since.
C10_Witness ==
    /\ viz_ticks = 2
    /\ Len(vis_log) = 3
    /\ <<"other">> \in vis_tree
    /\ <<prefix, "points">> \in vis_tree

(***************************************************************************)
(* Specifications                                                          *)
(***************************************************************************)
InitLogger == ContactLoggerInit /\ ExtractIdle /\ VizIdle
NextLogger == ContactLoggerDoPublish
SpecLogger == InitLogger /\ [][NextLogger]_vars

InitExtract == ContactLoggerInit /\ ExtractInit /\ VizIdle
NextExtract == extract_position_indices
SpecExtract == InitExtract /\ [][NextExtract]_vars

InitViz == ContactLoggerInit /\ ExtractIdle /\ VizNew

\* Construction and the first publish, for images of up to MaxPixels pixels
NextFrame == VizConstruct \/ VizFirstPublish
SpecFrame == InitViz /\ [][NextFrame]_vars

\* Construction and repeated publishes, for images of up to MaxTickPixels
NextTicks == VizConstruct \/ VizDoPublish
SpecTicks == InitViz /\ [][NextTicks]_vars

====
